---- MODULE Spec2Model ----
(***************************************************************************)
(* SheenBidi: SBCodepointSequence.                                         *)
(* A reference-counted record over a borrowed buffer of UTF-8, UTF-16 or   *)
(* UTF-32 code units, and the decoder that yields the codepoint at a       *)
(* caller-held cursor (Source/SBCodepointSequence.c).                      *)
(*                                                                         *)
(* Buffers are sequences of code units; the C index i is element i + 1.    *)
(* SBCodepoint is an unsigned 32-bit integer.  The model checker's integers *)
(* are signed 32-bit, so an SBCodepoint is held as the mathematical value  *)
(* of the C expression and its reduction modulo 2^32 is applied where the  *)
(* value is used (ULeq).                                                   *)
(***************************************************************************)
EXTENDS Integers, Sequences, FiniteSets, TLC

VARIABLES
    encoding,      \* codepointSequence->_encoding
    stringBuffer,  \* codepointSequence->stringBuffer (the borrowed code units)
    stringLength,  \* codepointSequence->stringLength
    retainCount,   \* codepointSequence->_retainCount
    heap,          \* the record: "none" (no object), "live" (malloc'ed), "freed"
    freeCount,     \* number of times free() was called on the record
    stringIndex,   \* the caller's cursor, *stringIndex
    codepoint,     \* the caller's variable receiving the decoded codepoint
    before,        \* the cursor value the last decode call was entered with
    last,          \* the last operation performed
    reads,         \* buffer indices the last decode call read
    calls,         \* decode calls made by the scanning loop
    scalar,        \* the scalar whose encoding the buffer holds (round-trip harness)
    form,          \* number of code units the harness encoded the scalar with
    held,          \* per thread: references the thread owns
    pc,            \* per thread: position inside retain / release
    tmp,           \* per thread: the counter value loaded by ++ / --
    lost           \* TRUE once a counter store has overwritten another thread's update

vars == << encoding, stringBuffer, stringLength, retainCount, heap, freeCount,
           stringIndex, codepoint, before, last, reads, calls, scalar, form,
           held, pc, tmp, lost >>

-----------------------------------------------------------------------------
(* Bounds of the model. *)

MaxLen == 4
MaxRetain == 3
MaxWrap == 2
ScalarWindow == 1

-----------------------------------------------------------------------------
(* Types and constants of the public headers. *)

SBEncodingUTF8 == "UTF8"
SBEncodingUTF16 == "UTF16"
SBEncodingUTF32 == "UTF32"
Encodings == {SBEncodingUTF8, SBEncodingUTF16, SBEncodingUTF32}

\* The two sentinels: distinct from each other and from every scalar value
\* (any two SBCodepoint values above 0x10FFFF).
SBCodepointInvalid == 2147483647
SBCodepointFaulty == 2147483646

\* v <= c for an SBCodepoint v and a constant 0 <= c < 2^31, where v is the
\* unreduced difference of two values below 2^31: a negative v stands for
\* v + 2^32, which is greater than c.
ULeq(v, c) == v >= 0 /\ v <= c

SBUInt8InRange(v, lo, hi) == v >= lo /\ v <= hi
SBUInt16InRange(v, lo, hi) == v >= lo /\ v <= hi
SBCodepointInRange(v, lo, hi) == v >= lo /\ v <= hi

\* What a decode call yields: the returned codepoint, the cursor after the
\* call, and the buffer indices the call read.
Decoded(cp, idx, rd) == [codepoint |-> cp, index |-> idx, reads |-> rd]

-----------------------------------------------------------------------------
(* _SBGetUTF8CodepointAt *)

\* Variant: the 2-byte header test accepts 0xC0..0xDF (every 110xxxxx byte).
SBGetUTF8CodepointAtWideHeader(buf, len, idx) ==
    LET remaining == len - idx
        header == buf[idx + 1]
        next == idx + 1                       \* *stringIndex += 1
        fail(rd) == Decoded(SBCodepointFaulty, next, rd)
    IN  IF header < 128 THEN
            Decoded(header, next, {idx})
        ELSE IF SBUInt8InRange(header, 192, 223) THEN
            IF remaining > 1 THEN
                LET byte1 == header % 16                   \* header & 0xF
                    byte2 == buf[next + 1] - 128
                    rd == {idx, next}
                IN  IF ULeq(byte2, 63)
                    THEN Decoded(byte1 * 64 + byte2, next + 1, rd)
                    ELSE fail(rd)
            ELSE fail({idx})
        ELSE IF SBUInt8InRange(header, 224, 239) THEN
            IF remaining > 2 THEN
                LET byte1 == header % 16                   \* header & 0xF
                    byte2 == buf[next + 1] - 128
                    byte3 == buf[next + 2] - 128
                    rd == {idx, next, next + 1}
                IN  IF ULeq(byte2, 63) /\ ULeq(byte3, 63) THEN
                        LET cp == byte1 * 4096 + byte2 * 64 + byte3
                        IN  IF cp > 2048 /\ ~SBCodepointInRange(cp, 55296, 57343)
                            THEN Decoded(cp, next + 2, rd)
                            ELSE fail(rd)
                    ELSE fail(rd)
            ELSE fail({idx})
        ELSE IF SBUInt8InRange(header, 240, 244) THEN
            IF remaining > 3 THEN
                LET byte1 == header % 8                    \* header & 0x7
                    byte2 == buf[next + 1] - 128
                    byte3 == buf[next + 2] - 128
                    byte4 == buf[next + 3] - 128
                    rd == {idx, next, next + 1, next + 2}
                IN  IF ULeq(byte2, 63) /\ ULeq(byte3, 63) /\ ULeq(byte4, 63) THEN
                        LET cp == byte1 * 262144 + byte2 * 4096 + byte3 * 64 + byte4
                        IN  IF SBCodepointInRange(cp, 65536, 1114111)
                            THEN Decoded(cp, next + 3, rd)
                            ELSE fail(rd)
                    ELSE fail(rd)
            ELSE fail({idx})
        ELSE fail({idx})

SBGetUTF8CodepointAt(buf, len, idx) ==
    LET remaining == len - idx
        header == buf[idx + 1]
        next == idx + 1                       \* *stringIndex += 1
        fail(rd) == Decoded(SBCodepointFaulty, next, rd)
    IN  IF header < 128 THEN
            Decoded(header, next, {idx})
        ELSE IF SBUInt8InRange(header, 194, 223) THEN
            IF remaining > 1 THEN
                LET byte1 == header % 16                   \* header & 0xF
                    byte2 == buf[next + 1] - 128
                    rd == {idx, next}
                IN  IF ULeq(byte2, 63)
                    THEN Decoded(byte1 * 64 + byte2, next + 1, rd)
                    ELSE fail(rd)
            ELSE fail({idx})
        ELSE IF SBUInt8InRange(header, 224, 239) THEN
            IF remaining > 2 THEN
                LET byte1 == header % 16                   \* header & 0xF
                    byte2 == buf[next + 1] - 128
                    byte3 == buf[next + 2] - 128
                    rd == {idx, next, next + 1}
                IN  IF ULeq(byte2, 63) /\ ULeq(byte3, 63) THEN
                        LET cp == byte1 * 4096 + byte2 * 64 + byte3
                        IN  IF cp > 2048 /\ ~SBCodepointInRange(cp, 55296, 57343)
                            THEN Decoded(cp, next + 2, rd)
                            ELSE fail(rd)
                    ELSE fail(rd)
            ELSE fail({idx})
        ELSE IF SBUInt8InRange(header, 240, 244) THEN
            IF remaining > 3 THEN
                LET byte1 == header % 8                    \* header & 0x7
                    byte2 == buf[next + 1] - 128
                    byte3 == buf[next + 2] - 128
                    byte4 == buf[next + 3] - 128
                    rd == {idx, next, next + 1, next + 2}
                IN  IF ULeq(byte2, 63) /\ ULeq(byte3, 63) /\ ULeq(byte4, 63) THEN
                        LET cp == byte1 * 262144 + byte2 * 4096 + byte3 * 64 + byte4
                        IN  IF SBCodepointInRange(cp, 65536, 1114111)
                            THEN Decoded(cp, next + 3, rd)
                            ELSE fail(rd)
                    ELSE fail(rd)
            ELSE fail({idx})
        ELSE fail({idx})

-----------------------------------------------------------------------------
(* _SBGetUTF16CodepointAt *)

\* Variant: a high surrogate not followed by a low one skips both units.
SBGetUTF16CodepointAtSkipPair(buf, len, idx) ==
    LET remaining == len - idx
        header == buf[idx + 1]
        next == idx + 1
    IN  IF ~SBUInt16InRange(header, 55296, 57343) THEN
            Decoded(header, next, {idx})
        ELSE IF header <= 56319 THEN
            IF remaining > 1 THEN
                LET high == header
                    low == buf[next + 1]
                IN  IF SBCodepointInRange(low, 56320, 57343)
                    THEN Decoded(high * 1024 + low - 56613888,
                                 next + 1, {idx, next})
                    ELSE Decoded(SBCodepointFaulty, next + 1, {idx, next})
            ELSE Decoded(SBCodepointFaulty, next, {idx})
        ELSE Decoded(SBCodepointFaulty, next, {idx})

\* Variant: the low surrogate is tested against its lower limit only.
SBGetUTF16CodepointAtAnyLow(buf, len, idx) ==
    LET remaining == len - idx
        header == buf[idx + 1]
        next == idx + 1
    IN  IF ~SBUInt16InRange(header, 55296, 57343) THEN
            Decoded(header, next, {idx})
        ELSE IF header <= 56319 THEN
            IF remaining > 1 THEN
                LET high == header
                    low == buf[next + 1]
                IN  IF low >= 56320
                    THEN Decoded(high * 1024 + low - 56613888,
                                 next + 1, {idx, next})
                    ELSE Decoded(SBCodepointFaulty, next, {idx, next})
            ELSE Decoded(SBCodepointFaulty, next, {idx})
        ELSE Decoded(SBCodepointFaulty, next, {idx})

\* Variant: the low surrogate is read without the remaining-count test; a
\* read past the end of the buffer yields some unit, here a low surrogate.
SBGetUTF16CodepointAtNoRemainingTest(buf, len, idx) ==
    LET header == buf[idx + 1]
        next == idx + 1
    IN  IF ~SBUInt16InRange(header, 55296, 57343) THEN
            Decoded(header, next, {idx})
        ELSE IF header <= 56319 THEN
            LET high == header
                low == IF next < len THEN buf[next + 1] ELSE 56320
            IN  IF SBCodepointInRange(low, 56320, 57343)
                THEN Decoded(high * 1024 + low - 56613888,
                             next + 1, {idx, next})
                ELSE Decoded(SBCodepointFaulty, next, {idx, next})
        ELSE Decoded(SBCodepointFaulty, next, {idx})

SBGetUTF16CodepointAt(buf, len, idx) ==
    LET remaining == len - idx
        header == buf[idx + 1]
        next == idx + 1                       \* *stringIndex += 1
    IN  IF ~SBUInt16InRange(header, 55296, 57343) THEN
            Decoded(header, next, {idx})
        ELSE IF header <= 56319 THEN
            IF remaining > 1 THEN
                LET high == header
                    low == buf[next + 1]
                IN  IF SBCodepointInRange(low, 56320, 57343)
                    THEN Decoded(high * 1024 + low - 56613888,
                                 next + 1, {idx, next})
                    ELSE Decoded(SBCodepointFaulty, next, {idx, next})
            ELSE Decoded(SBCodepointFaulty, next, {idx})
        ELSE Decoded(SBCodepointFaulty, next, {idx})

-----------------------------------------------------------------------------
(* _SBGetUTF32CodepointAt *)

\* Variant: the cursor is advanced only when the unit is accepted.
SBGetUTF32CodepointAtStuck(buf, len, idx) ==
    LET header == buf[idx + 1]
    IN  IF ~SBCodepointInRange(header, 55296, 57343) /\ header <= 1114111
        THEN Decoded(header, idx + 1, {idx})
        ELSE Decoded(SBCodepointFaulty, idx, {idx})

\* Variant: the surrogate range is not excluded.
SBGetUTF32CodepointAtNoSurrogateTest(buf, len, idx) ==
    LET header == buf[idx + 1]
        next == idx + 1
    IN  IF header <= 1114111
        THEN Decoded(header, next, {idx})
        ELSE Decoded(SBCodepointFaulty, next, {idx})

SBGetUTF32CodepointAt(buf, len, idx) ==
    LET header == buf[idx + 1]
        next == idx + 1                       \* *stringIndex += 1
    IN  IF ~SBCodepointInRange(header, 55296, 57343) /\ header <= 1114111
        THEN Decoded(header, next, {idx})
        ELSE Decoded(SBCodepointFaulty, next, {idx})

-----------------------------------------------------------------------------
(* SBCodepointSequenceGetCodepointAt.  hasIndex is FALSE when the         *)
(* stringIndex argument is a null pointer; idx is the cursor it points to. *)

\* Variant: codepoint starts as SBCodepointFaulty instead of SBCodepointInvalid.
SBCodepointSequenceGetCodepointAtFaultyDefault(enc, buf, len, hasIndex, idx) ==
    IF hasIndex /\ idx < len THEN
        CASE enc = SBEncodingUTF8  -> SBGetUTF8CodepointAt(buf, len, idx)
          [] enc = SBEncodingUTF16 -> SBGetUTF16CodepointAt(buf, len, idx)
          [] enc = SBEncodingUTF32 -> SBGetUTF32CodepointAt(buf, len, idx)
          [] OTHER -> Decoded(SBCodepointFaulty, idx, {})
    ELSE Decoded(SBCodepointFaulty, idx, {})

SBCodepointSequenceGetCodepointAt(enc, buf, len, hasIndex, idx) ==
    IF hasIndex /\ idx < len THEN
        CASE enc = SBEncodingUTF8  -> SBGetUTF8CodepointAt(buf, len, idx)
          [] enc = SBEncodingUTF16 -> SBGetUTF16CodepointAt(buf, len, idx)
          [] enc = SBEncodingUTF32 -> SBGetUTF32CodepointAt(buf, len, idx)
          [] OTHER -> Decoded(SBCodepointInvalid, idx, {})
    ELSE Decoded(SBCodepointInvalid, idx, {})

-----------------------------------------------------------------------------
(* SBCodepointSequenceCreateWithEncoding: the record, or NoObject when the *)
(* buffer is null or the length is zero.  NullBuffer is the null pointer   *)
(* (no buffer holds a negative code unit).                                 *)

NullBuffer == << -1 >>
NoObject == [encoding |-> "", stringBuffer |-> << >>, stringLength |-> 0,
             retainCount |-> 0, heap |-> "none"]

SBCodepointSequenceCreateWithEncoding(enc, buf, len) ==
    IF buf # NullBuffer /\ len > 0
    THEN [encoding |-> enc, stringBuffer |-> buf, stringLength |-> len,
          retainCount |-> 1, heap |-> "live"]
    ELSE NoObject

SBCodepointSequenceCreateWithUTF8String(buf, len) ==
    SBCodepointSequenceCreateWithEncoding(SBEncodingUTF8, buf, len)

SBCodepointSequenceCreateWithUTF16String(buf, len) ==
    SBCodepointSequenceCreateWithEncoding(SBEncodingUTF16, buf, len)

SBCodepointSequenceCreateWithUTF32String(buf, len) ==
    SBCodepointSequenceCreateWithEncoding(SBEncodingUTF32, buf, len)

Create(enc, buf, len) ==
    CASE enc = SBEncodingUTF8  -> SBCodepointSequenceCreateWithUTF8String(buf, len)
      [] enc = SBEncodingUTF16 -> SBCodepointSequenceCreateWithUTF16String(buf, len)
      [] enc = SBEncodingUTF32 -> SBCodepointSequenceCreateWithUTF32String(buf, len)

-----------------------------------------------------------------------------
(* SBCodepointSequenceRetain and SBCodepointSequenceRelease, on the part   *)
(* of the record they touch: [retainCount, heap].  A null handle is the    *)
(* record with heap = "none".                                              *)

Handle(count, h) == [retainCount |-> count, heap |-> h]

\* Variant: the counter is left as it was.
SBCodepointSequenceRetainNoCount(seq) == seq

SBCodepointSequenceRetain(seq) ==
    IF seq.heap # "none"
    THEN [seq EXCEPT !.retainCount = @ + 1]          \* ++_retainCount
    ELSE seq

\* Variant: _retainCount-- == 0, the test made on the value before the decrement.
SBCodepointSequenceReleasePostDecrement(seq) ==
    IF seq.heap # "none" THEN
        IF seq.retainCount = 0
        THEN [seq EXCEPT !.retainCount = @ - 1, !.heap = "freed"]
        ELSE [seq EXCEPT !.retainCount = @ - 1]
    ELSE seq

\* --_retainCount == 0: the decrement, and the test of its result.  The
\* counter is unsigned; it is held unreduced, a negative value standing for
\* that value plus 2^w (0 - 1 is the largest SBUInteger, and is not 0).
ReleaseDecrement(count) == count - 1
ReleaseFrees(count) == count = 0

SBCodepointSequenceRelease(seq) ==
    IF seq.heap # "none" THEN
        LET count == ReleaseDecrement(seq.retainCount)   \* --_retainCount
        IN  IF ReleaseFrees(count)
            THEN [seq EXCEPT !.retainCount = count, !.heap = "freed"]   \* free()
            ELSE [seq EXCEPT !.retainCount = count]
    ELSE seq

-----------------------------------------------------------------------------
(* Inputs: code units per encoding form, chosen on both sides of every     *)
(* range test of the decoders, and all buffers of 1..MaxLen of them.       *)
(* A UTF-32 unit above 0x7FFFFFFF is beyond the model checker's integers;  *)
(* the decoder compares the unit unsigned, as it does 0x7FFFFFFF.          *)

\* 0x41, 0x80, 0xBF, 0xC2, 0xE0, 0xED, 0xF0, 0xF4
UTF8Units == {65, 128, 191, 194, 224, 237, 240, 244}
\* 0x41, 0xD7FF, 0xD800, 0xDBFF, 0xDC00, 0xDFFF, 0xE000
UTF16Units == {65, 55295, 55296, 56319, 56320, 57343, 57344}
\* 0xD7FF, 0xD800, 0xDFFF, 0xE000, 0x10FFFF, 0x110000, 0x7FFFFFFF
UTF32Units == {55295, 55296, 57343, 57344, 1114111, 1114112, 2147483647}

Units(enc) ==
    CASE enc = SBEncodingUTF8  -> UTF8Units
      [] enc = SBEncodingUTF16 -> UTF16Units
      [] enc = SBEncodingUTF32 -> UTF32Units

Buffers(enc) == UNION { [1..n -> Units(enc)] : n \in 1..MaxLen }

Threads == {1, 2}

\* The variables a specification does not use keep these values.
IdleThreads ==
    /\ pc = [t \in Threads |-> "idle"]
    /\ tmp = [t \in Threads |-> 0]
    /\ lost = FALSE

IdleHarness == scalar = 0 /\ form = 0

IdleCursor ==
    /\ stringIndex = 0
    /\ codepoint = SBCodepointInvalid
    /\ before = 0
    /\ reads = {}
    /\ calls = 0

\* The state right after SBCodepointSequenceCreateWith...String returned seq
\* to thread 1.
Created(seq) ==
    /\ encoding = seq.encoding
    /\ stringBuffer = seq.stringBuffer
    /\ stringLength = seq.stringLength
    /\ retainCount = seq.retainCount
    /\ heap = seq.heap
    /\ freeCount = 0
    /\ held = [t \in Threads |-> IF t = 1 /\ seq.heap = "live" THEN 1 ELSE 0]

-----------------------------------------------------------------------------
(* Spec: a sequence over any buffer, a caller-held cursor at any position, *)
(* and decode calls through SBCodepointSequenceGetCodepointAt.             *)

Init ==
    \E enc \in Encodings :
      \E buf \in Buffers(enc) :
        /\ Created(Create(enc, buf, Len(buf)))
        /\ last = "create"
        /\ stringIndex \in 0..(Len(buf) + 1)
        /\ codepoint = SBCodepointInvalid
        /\ before = 0
        /\ reads = {}
        /\ calls = 0
        /\ IdleHarness
        /\ IdleThreads

\* codepoint = SBCodepointSequenceGetCodepointAt(sequence, &stringIndex), or
\* the same call with a null stringIndex pointer.
GetCodepointAt ==
    /\ heap = "live"
    /\ \E hasIndex \in BOOLEAN :
         LET r == SBCodepointSequenceGetCodepointAt(encoding, stringBuffer,
                                                   stringLength, hasIndex, stringIndex)
         IN  /\ codepoint' = r.codepoint
             /\ stringIndex' = r.index
             /\ reads' = r.reads
             /\ before' = stringIndex
             /\ last' = IF hasIndex THEN "decode" ELSE "decodeNull"
    /\ UNCHANGED << encoding, stringBuffer, stringLength, retainCount, heap,
                    freeCount, calls, scalar, form, held, pc, tmp, lost >>

Next == GetCodepointAt

Spec == Init /\ [][Next]_vars

-----------------------------------------------------------------------------
(* SpecScan: the caller's scanning loop,                                   *)
(*   index = 0; while (index < length) decodeAt(sequence, &index);         *)

InitScan ==
    \E enc \in Encodings :
      \E buf \in Buffers(enc) :
        /\ Created(Create(enc, buf, Len(buf)))
        /\ last = "create"
        /\ IdleCursor
        /\ IdleHarness
        /\ IdleThreads

ScanStep ==
    /\ heap = "live"
    /\ stringIndex < stringLength
    /\ calls <= stringLength
    /\ LET r == SBCodepointSequenceGetCodepointAt(encoding, stringBuffer,
                                                 stringLength, TRUE, stringIndex)
       IN  /\ codepoint' = r.codepoint
           /\ stringIndex' = r.index
           /\ reads' = r.reads
           /\ before' = stringIndex
           /\ last' = "decode"
           /\ calls' = calls + 1
    /\ UNCHANGED << encoding, stringBuffer, stringLength, retainCount, heap,
                    freeCount, scalar, form, held, pc, tmp, lost >>

NextScan == ScanStep

SpecScan == InitScan /\ [][NextScan]_vars /\ WF_vars(ScanStep)

-----------------------------------------------------------------------------
(* SpecCodec: the buffer holds one scalar, encoded by the standard UTF-8,  *)
(* UTF-16 or UTF-32 encoder in a form of `form` code units (for UTF-8 the  *)
(* shortest form or a longer, overlong one), and is decoded from cursor 0. *)

\* 0, 0x41, 0x80, 0x400, 0x800, 0x20AC, 0xD800, 0xE000, 0xFFFD, 0x10000,
\* 0x1F600, 0x10FFFF
Boundaries == {0, 65, 128, 1024, 2048, 8364, 55296, 57344, 65533, 65536,
               128512, 1114111}

IsScalar(s) == s >= 0 /\ s <= 1114111 /\ ~(s >= 55296 /\ s <= 57343)

Scalars ==
    { s \in UNION { (b - ScalarWindow)..(b + ScalarWindow) : b \in Boundaries } :
        IsScalar(s) }

\* The n-byte UTF-8 form of s (s below 2^7, 2^11, 2^16, 2^21 for n = 1..4).
UTF8Encode(s, n) ==
    CASE n = 1 -> << s >>
      [] n = 2 -> << 192 + (s \div 64), 128 + (s % 64) >>
      [] n = 3 -> << 224 + (s \div 4096), 128 + ((s \div 64) % 64), 128 + (s % 64) >>
      [] n = 4 -> << 240 + (s \div 262144), 128 + ((s \div 4096) % 64),
                     128 + ((s \div 64) % 64), 128 + (s % 64) >>

UTF16Encode(s) ==
    IF s < 65536 THEN << s >>
    ELSE << 55296 + ((s - 65536) \div 1024), 56320 + ((s - 65536) % 1024) >>

UTF32Encode(s) == << s >>

\* Code units of the standard (shortest) form of s.
ShortestForm(enc, s) ==
    CASE enc = SBEncodingUTF8  ->
             IF s < 128 THEN 1 ELSE IF s < 2048 THEN 2 ELSE IF s < 65536 THEN 3 ELSE 4
      [] enc = SBEncodingUTF16 -> IF s < 65536 THEN 1 ELSE 2
      [] enc = SBEncodingUTF32 -> 1

Forms(enc, s) ==
    IF enc = SBEncodingUTF8 THEN ShortestForm(enc, s)..4 ELSE {ShortestForm(enc, s)}

Encode(enc, s, n) ==
    CASE enc = SBEncodingUTF8  -> UTF8Encode(s, n)
      [] enc = SBEncodingUTF16 -> UTF16Encode(s)
      [] enc = SBEncodingUTF32 -> UTF32Encode(s)

InitCodec ==
    \E enc \in Encodings :
      \E s \in Scalars :
        \E n \in Forms(enc, s) :
          LET buf == Encode(enc, s, n)
          IN  /\ Created(Create(enc, buf, Len(buf)))
              /\ last = "create"
              /\ IdleCursor
              /\ scalar = s
              /\ form = n
              /\ IdleThreads

SpecCodec == InitCodec /\ [][Next]_vars

-----------------------------------------------------------------------------
(* SpecLife: one owner thread creates a sequence, retains and releases it. *)
(* Every call is made on the handle create returned: the null handle when  *)
(* create returned no object; otherwise only while the caller still owns a *)
(* reference (held[1] >= 1).                                               *)

InitLife ==
    /\ Created(NoObject)
    /\ last = "init"
    /\ IdleCursor
    /\ IdleHarness
    /\ IdleThreads

CreateOp ==
    /\ heap = "none"
    /\ \E enc \in Encodings :
         \E buf \in Buffers(enc) \cup {NullBuffer} :
           \E len \in {0, Len(buf)} :
             LET seq == Create(enc, buf, len)
             IN  /\ encoding' = seq.encoding
                 /\ stringBuffer' = seq.stringBuffer
                 /\ stringLength' = seq.stringLength
                 /\ retainCount' = seq.retainCount
                 /\ heap' = seq.heap
                 /\ held' = [held EXCEPT ![1] = IF seq.heap = "live" THEN 1 ELSE 0]
    /\ last' = "create"
    /\ UNCHANGED << freeCount, stringIndex, codepoint, before, reads, calls,
                    scalar, form, pc, tmp, lost >>

RetainOp ==
    /\ \/ heap = "none"
       \/ heap = "live" /\ held[1] >= 1 /\ retainCount < MaxRetain
    /\ LET seq == SBCodepointSequenceRetain(Handle(retainCount, heap))
       IN  /\ retainCount' = seq.retainCount
           /\ heap' = seq.heap
    /\ held' = [held EXCEPT ![1] = IF heap = "live" THEN @ + 1 ELSE @]
    /\ last' = "retain"
    /\ UNCHANGED << encoding, stringBuffer, stringLength, freeCount, stringIndex,
                    codepoint, before, reads, calls, scalar, form, pc, tmp, lost >>

ReleaseOp ==
    /\ \/ heap = "none"
       \/ heap = "live" /\ held[1] >= 1
    /\ LET seq == SBCodepointSequenceRelease(Handle(retainCount, heap))
       IN  /\ retainCount' = seq.retainCount
           /\ heap' = seq.heap
           /\ freeCount' = IF seq.heap = "freed" THEN freeCount + 1 ELSE freeCount
    /\ held' = [held EXCEPT ![1] = IF heap = "live" THEN @ - 1 ELSE @]
    /\ last' = "release"
    /\ UNCHANGED << encoding, stringBuffer, stringLength, stringIndex, codepoint,
                    before, reads, calls, scalar, form, pc, tmp, lost >>

NextLife == CreateOp \/ RetainOp \/ ReleaseOp

SpecLife == InitLife /\ [][NextLife]_vars

-----------------------------------------------------------------------------
(* SpecMT: two threads share one sequence, each owning one reference, and  *)
(* call retain and release without a lock.  ++ and -- on _retainCount are  *)
(* a load and a store; the steps of the two threads interleave.  The test *)
(* --_retainCount == 0 is a data race with the other thread's store: it    *)
(* is made on the value the thread stored (kept in a register) or on the   *)
(* counter read back from the record, whichever the build does.  Once the  *)
(* record is freed no call is started; a call in progress completes, its   *)
(* store going to the freed record and its read of the freed record        *)
(* yielding any value.                                                     *)

InitMT ==
    LET seq == SBCodepointSequenceRetain(Create(SBEncodingUTF8, << 65 >>, 1))
    IN  /\ encoding = SBEncodingUTF8
        /\ stringBuffer = << 65 >>
        /\ stringLength = 1
        /\ retainCount = seq.retainCount
        /\ heap = seq.heap
        /\ freeCount = 0
        /\ held = [t \in Threads |-> 1]
        /\ last = "retain"
        /\ IdleCursor
        /\ IdleHarness
        /\ IdleThreads

HeldTotal == held[1] + held[2]

\* Thread t enters SBCodepointSequenceRetain and loads _retainCount.
RetainLoad(t) ==
    /\ heap = "live" /\ pc[t] = "idle"
    /\ held[t] >= 1 /\ HeldTotal < MaxRetain /\ retainCount < MaxRetain
    /\ tmp' = [tmp EXCEPT ![t] = retainCount]
    /\ pc' = [pc EXCEPT ![t] = "retain"]
    /\ UNCHANGED << encoding, stringBuffer, stringLength, retainCount, heap,
                    freeCount, stringIndex, codepoint, before, last, reads, calls,
                    scalar, form, held, lost >>

\* Thread t stores the incremented value it computed from its load.
RetainStore(t) ==
    /\ pc[t] = "retain"
    /\ LET seq == SBCodepointSequenceRetain(Handle(tmp[t], heap))
       IN  /\ retainCount' = seq.retainCount
           /\ heap' = seq.heap
    /\ lost' = (lost \/ retainCount # tmp[t])
    /\ held' = [held EXCEPT ![t] = @ + 1]
    /\ pc' = [pc EXCEPT ![t] = "idle"]
    /\ last' = "retain"
    /\ UNCHANGED << encoding, stringBuffer, stringLength, freeCount, stringIndex,
                    codepoint, before, reads, calls, scalar, form, tmp >>

\* Thread t gives up one reference: enters SBCodepointSequenceRelease and
\* loads _retainCount, whatever it holds.  Lost updates can leave a holder
\* with the counter at 0 or below; releases are followed down to -MaxWrap.
ReleaseLoad(t) ==
    /\ heap = "live" /\ pc[t] = "idle"
    /\ held[t] >= 1 /\ retainCount > -MaxWrap
    /\ tmp' = [tmp EXCEPT ![t] = retainCount]
    /\ pc' = [pc EXCEPT ![t] = "release"]
    /\ held' = [held EXCEPT ![t] = @ - 1]
    /\ UNCHANGED << encoding, stringBuffer, stringLength, retainCount, heap,
                    freeCount, stringIndex, codepoint, before, last, reads, calls,
                    scalar, form, lost >>

\* Thread t stores the decremented value it computed from its load.
ReleaseStore(t) ==
    /\ pc[t] = "release"
    /\ retainCount' = ReleaseDecrement(tmp[t])
    /\ lost' = (lost \/ retainCount # tmp[t])
    /\ pc' = [pc EXCEPT ![t] = "test"]
    /\ UNCHANGED << encoding, stringBuffer, stringLength, heap, freeCount,
                    stringIndex, codepoint, before, last, reads, calls, scalar,
                    form, held, tmp >>

\* The values thread t may find when it tests the result of its decrement:
\* the value it stored, or the counter as the record holds it now (any value
\* once the record is freed).
TestedValues(t) ==
    {ReleaseDecrement(tmp[t])}
        \cup (IF heap = "live" THEN {retainCount} ELSE (-MaxWrap)..MaxRetain)

\* Thread t tests the result of the decrement and calls free() if it is 0.
ReleaseTest(t) ==
    /\ pc[t] = "test"
    /\ \E count \in TestedValues(t) :
         IF ReleaseFrees(count)
         THEN heap' = "freed" /\ freeCount' = freeCount + 1
         ELSE UNCHANGED << heap, freeCount >>
    /\ pc' = [pc EXCEPT ![t] = "idle"]
    /\ last' = "release"
    /\ UNCHANGED << encoding, stringBuffer, stringLength, retainCount, stringIndex,
                    codepoint, before, reads, calls, scalar, form, held, tmp, lost >>

NextMT ==
    \E t \in Threads :
        \/ RetainLoad(t) \/ RetainStore(t)
        \/ ReleaseLoad(t) \/ ReleaseStore(t) \/ ReleaseTest(t)

SpecMT == InitMT /\ [][NextMT]_vars

-----------------------------------------------------------------------------
(* Properties.                                                             *)

Decoded1 == last = "decode" /\ before < stringLength
Quiescent == \A t \in Threads : pc[t] = "idle"
Header == stringBuffer[before + 1]
IsHigh(u) == u >= 55296 /\ u <= 56319
IsLow(u) == u >= 56320 /\ u <= 57343

\* C1 (SpecCodec): round trip.  Decoding the standard shortest-form encoding
\* of a scalar from cursor 0 returns the scalar and advances the cursor by
\* the number of code units of that form.
RoundTrip ==
    (last = "decode" /\ before = 0 /\ form = ShortestForm(encoding, scalar))
        => (codepoint = scalar /\ stringIndex = form)

\* C1, the part of the round trip the decoder does satisfy: every shortest
\* form except the UTF-8 forms of U+0400..U+0800.
RoundTripOutsideDefect ==
    (last = "decode" /\ before = 0 /\ form = ShortestForm(encoding, scalar)
        /\ ~(encoding = SBEncodingUTF8 /\ scalar >= 1024 /\ scalar <= 2048))
        => (codepoint = scalar /\ stringIndex = form)

\* C2 (Spec): a decode call entered with the cursor at or beyond the length
\* returns SBCodepointInvalid and leaves the cursor where it was.
OutOfRangeIsInvalid ==
    (last = "decode" /\ before >= stringLength)
        => (codepoint = SBCodepointInvalid /\ stringIndex = before)

OutOfRangeWitness ==
    /\ last = "decode" /\ before > stringLength
    /\ codepoint = SBCodepointInvalid /\ stringIndex = before

\* Every decode call of the scan has moved the cursor forward by at least
\* one code unit and never past the end; the calls made never exceed the
\* cursor, and so never the length.
ScanProgress ==
    /\ calls <= stringIndex
    /\ stringIndex <= stringLength
    /\ calls <= stringLength
    /\ (last = "decode" => stringIndex > before)

\* C3 (SpecScan): every decode call made with the cursor below the length
\* advances the cursor by at least one code unit, so the scan from cursor 0
\* makes at most length calls and reaches the end of the buffer.
ScanTerminates == []ScanProgress /\ <>(stringIndex >= stringLength)

\* C3, for a call at any cursor below the length (Spec): the call advances
\* the cursor by at least one code unit.
EveryCallAdvances == Decoded1 => stringIndex > before

ScanWitness ==
    /\ last = "decode" /\ codepoint = SBCodepointFaulty
    /\ stringLength > 1
    /\ stringIndex = stringLength /\ calls = stringLength

\* C4 (Spec): whenever a decode call returns SBCodepointFaulty the cursor
\* has advanced by exactly one code unit.
FaultyAdvancesOne ==
    (last = "decode" /\ codepoint = SBCodepointFaulty) => stringIndex = before + 1

\* A UTF-8 header with all its continuation bytes read and the assembled
\* value rejected.
FaultyWitness ==
    /\ last = "decode" /\ codepoint = SBCodepointFaulty
    /\ encoding = SBEncodingUTF8 /\ Cardinality(reads) >= 3
    /\ stringIndex = before + 1

\* C5 (SpecCodec): a UTF-8 encoding of a scalar in more bytes than its
\* shortest form decodes to SBCodepointFaulty, and the cursor moves to 1.
OverlongRejected ==
    (last = "decode" /\ before = 0 /\ encoding = SBEncodingUTF8
        /\ form > ShortestForm(encoding, scalar))
        => (codepoint = SBCodepointFaulty /\ stringIndex = 1)

\* The buffer [0xC0, 0x80], the overlong null.
OverlongWitness ==
    /\ last = "decode" /\ before = 0 /\ encoding = SBEncodingUTF8
    /\ scalar = 0 /\ form = 2 /\ stringBuffer = << 192, 128 >>
    /\ codepoint = SBCodepointFaulty /\ stringIndex = 1

\* C6 (Spec): UTF-16.  A high surrogate at the end of the buffer, a high
\* surrogate followed by a unit that is not a low surrogate, and a low
\* surrogate at the cursor return SBCodepointFaulty and advance by 1; a high
\* surrogate followed by a low one returns
\* 0x10000 + ((high - 0xD800) << 10) + (low - 0xDC00) and advances by 2.
SurrogatePairs ==
    (Decoded1 /\ encoding = SBEncodingUTF16) =>
        LET faulty == codepoint = SBCodepointFaulty /\ stringIndex = before + 1
        IN  /\ (IsHigh(Header) /\ before + 1 = stringLength) => faulty
            /\ (IsHigh(Header) /\ before + 1 < stringLength
                    /\ ~IsLow(stringBuffer[before + 2])) => faulty
            /\ IsLow(Header) => faulty
            /\ (IsHigh(Header) /\ before + 1 < stringLength
                    /\ IsLow(stringBuffer[before + 2])) =>
                   /\ codepoint = 65536 + (Header - 55296) * 1024
                                        + (stringBuffer[before + 2] - 56320)
                   /\ stringIndex = before + 2

\* The pair [0xDBFF, 0xDFFF] decoded to U+10FFFF.
SurrogatePairWitness ==
    /\ Decoded1 /\ encoding = SBEncodingUTF16
    /\ Header = 56319 /\ before + 1 < stringLength
    /\ stringBuffer[before + 2] = 57343
    /\ codepoint = 1114111 /\ stringIndex = before + 2

\* C7 (Spec): a decode call returns SBCodepointInvalid, SBCodepointFaulty or
\* a value in 0..0x10FFFF outside 0xD800..0xDFFF; under UTF-32 a code unit
\* in 0xD800..0xDFFF or above 0x10FFFF returns SBCodepointFaulty.
ResultIsScalarOrSentinel ==
    /\ (last \in {"decode", "decodeNull"}) =>
           \/ codepoint \in {SBCodepointInvalid, SBCodepointFaulty}
           \/ IsScalar(codepoint)
    /\ (Decoded1 /\ encoding = SBEncodingUTF32 /\ ~IsScalar(Header)) =>
           codepoint = SBCodepointFaulty

ResultWitness ==
    /\ Decoded1 /\ encoding = SBEncodingUTF32
    /\ Header = 57343 /\ codepoint = SBCodepointFaulty

\* C8 (SpecLife): create returns a record with count 1; over any sequence
\* of retains and releases by the owner the live record's count equals the
\* number of references held and is at least 1, the record is freed at the
\* release that takes the count to 0, and it is freed at most once.
ExactlyOnceDestruction ==
    /\ freeCount <= 1
    /\ (heap = "freed") <=> (freeCount = 1)
    /\ (last = "create" /\ heap = "live") => retainCount = 1
    /\ heap = "live" => (retainCount >= 1 /\ retainCount = held[1])
    /\ heap = "freed" => (last = "release" /\ retainCount = 0 /\ held[1] = 0)

\* Retained, then released twice: the record is gone.
DestructionWitness ==
    /\ heap = "freed" /\ freeCount = 1 /\ last = "release"
    /\ held[1] = 0

\* C9 (SpecMT): with both threads outside retain and release, the counter
\* disagrees with the references held (a live record with another count or
\* with no holder, a freed record with a holder left) only after a counter
\* store has overwritten another thread's update.
RaceFreeIsConsistent ==
    (Quiescent /\ ~lost) =>
        /\ heap = "live" => (retainCount = HeldTotal /\ HeldTotal >= 1)
        /\ heap = "freed" => HeldTotal = 0

\* Premature destruction: the record is freed and a thread still owns a
\* reference.
PrematureDestruction ==
    /\ Quiescent /\ lost
    /\ heap = "freed" /\ HeldTotal >= 1

\* The test made on the counter read back: both threads release, each finds
\* 0 and calls free(), with no update lost.
DoubleFree == Quiescent /\ ~lost /\ freeCount = 2

\* Leak: every reference has been released and the record is still live.
Leak ==
    /\ Quiescent /\ lost
    /\ heap = "live" /\ HeldTotal = 0

\* C10 (Spec), as claimed: a decode call reads only indices below the
\* length, and the cursor after the call is at most the length.
BoundsSafeAnyCursor ==
    (last \in {"decode", "decodeNull"}) =>
        /\ reads \subseteq 0..(stringLength - 1)
        /\ stringIndex <= stringLength

\* C10 (Spec), amended: a decode call reads only indices below the length;
\* entered with a cursor of at most the length it leaves the cursor at most
\* the length, and entered with a cursor beyond it, it leaves the cursor
\* unchanged.
BoundsSafe ==
    (last \in {"decode", "decodeNull"}) =>
        /\ reads \subseteq 0..(stringLength - 1)
        /\ before <= stringLength => stringIndex <= stringLength
        /\ before > stringLength => stringIndex = before

\* A 4-byte UTF-8 header as the last byte of the buffer: only the header
\* is read.
BoundsWitness ==
    /\ Decoded1 /\ encoding = SBEncodingUTF8
    /\ Header = 244 /\ before + 1 = stringLength
    /\ reads = {before} /\ stringIndex = stringLength

====
